---- MODULE Spec2Model ----
(***************************************************************************)
(* Palette accessibility analysis (src/src/lib/colorUtils.ts).             *)
(*                                                                         *)
(* Numbers.  A deltaE or a contrast ratio x is the integer x * Scale, a     *)
(* mean or a score term is a fraction [num, den] (den > 0) of such         *)
(* integers, and a comparison with a decimal literal of the source         *)
(* (x >= 4.5) is the cross-multiplied integer comparison.  Products and    *)
(* quotients are exact.  A sum of the source (a + b on numbers) is rounded *)
(* as a floating point sum is, to the nearest number of SignificandBits    *)
(* significant bits, a tie going to the even one; a JavaScript number has  *)
(* 53 such bits, the model fewer, so that sums that round are within the   *)
(* integers of the model checker.                                          *)
(*                                                                         *)
(* culori.  The library is not part of the repository (only its            *)
(* declarations are, src/unnamed/part_003).  Its answers are inputs of the *)
(* program: the variable lib holds one possible behaviour of the library,  *)
(* drawn in Init and constant afterwards, so that every call of one run    *)
(* sees the same library.  The only facts assumed of the library are that  *)
(* parse accepts '#rrggbb' in either letter case and rejects other text,   *)
(* that differenceCiede2000 and wcagContrast are symmetric and give 0 and  *)
(* 1 on one and the same color, that a contrast of two colors is >= 1 and  *)
(* a difference >= 0, and that formatHex writes lowercase '#rrggbb'.       *)
(***************************************************************************)
EXTENDS Integers, Sequences, FiniteSets, TLC

VARIABLES
    lib,      \* the behaviour of the culori library in this run
    colors,   \* the palette given to the engine (string[])
    pairs,    \* analyzePalettePairs(colors)
    score,    \* calculateAccessibilityScore(colors)
    simulations, \* simulatePaletteCVD(colors, type) for each deficiency type
    sortedPairs, \* the rows of the report's table of all pairs
    attentionList, \* the report's problematicPairs, 'Colors That Need Attention'
    isDistinguishable, \* CVDSimulation: the verdict behind each type's badge
    distinctCheck, \* VisualPreview: the verdict of each panel of the grid
    paletteMetadata, \* Home: description, name and data type of an AI palette
    call,     \* the last single call of an exported function: [fn, args, ret]
    env,      \* /api/generate: process.env.GOOGLE_GENERATIVE_AI_API_KEY
    request,  \* /api/generate: what request.json() gives
    prompts,  \* /api/generate: the prompts sent to the remote model
    response  \* /api/generate: the response of the handler, once it returned

\* The state of the /api/generate handler
routeVars == <<env, request, prompts, response>>

vars == <<lib, colors, pairs, score, simulations, sortedPairs,
          attentionList, isDistinguishable, distinctCheck, paletteMetadata,
          call, routeVars>>

----------------------------------------------------------------------------
(* Bounds of the model *)

\* Longest palette given to the engine.
MaxLen == 3

\* Resolution of deltaE and contrast values: x is stored as x * Scale.
Scale == 100

\* Significant bits of a number (53 in JavaScript).
SignificandBits == 13

\* Longest palette of the report with more pairs than the attention list
\* can hold (4 colors make 6 pairs)
ReportLen == 4

----------------------------------------------------------------------------
(* Fractions *)

Rat(n, d) == [num |-> n, den |-> d]

RatEq(a, b) == a.num * b.den = b.num * a.den

RatLess(a, b) == a.num * b.den < b.num * a.den

RatAdd(a, b) == Rat(a.num * b.den + b.num * a.den, a.den * b.den)

RECURSIVE Pow2(_)
Pow2(n) == IF n = 0 THEN 1 ELSE 2 * Pow2(n - 1)

\* The spacing of the floating point numbers around n >= 0: the least power
\* of two q with n / q below 2^SignificandBits
RECURSIVE Quantum(_, _)
Quantum(n, q) == IF n \div q < Pow2(SignificandBits) THEN q ELSE Quantum(n, 2 * q)

\* The floating point number nearest to the integer n >= 0, ties to even
RoundToNearest(n) ==
    LET q == Quantum(n, 1)
        below == (n \div q) * q
        rest == n - below
    IN  IF 2 * rest < q THEN below
        ELSE IF 2 * rest > q THEN below + q
        ELSE IF (n \div q) % 2 = 0 THEN below ELSE below + q

\* a + b on numbers
FloatAdd(a, b) ==
    IF a + b < 0 THEN -RoundToNearest(-(a + b)) ELSE RoundToNearest(a + b)

\* Math.min of two numbers
MathMin(a, b) == IF RatLess(b, a) THEN b ELSE a

\* Math.round: the integer nearest to a, a tie going up (floor(a + 1/2))
MathRound(a) == (2 * a.num + a.den) \div (2 * a.den)

----------------------------------------------------------------------------
(* The culori library *)

\* A Color is its three 8-bit channels; Undefined is parse's `undefined`.
Color(r, g, b) == [r |-> r, g |-> g, b |-> b]

Undefined == [r |-> -1, g |-> -1, b |-> -1]

Teal == Color(27, 158, 119)

Orange == Color(217, 95, 2)

KnownColors == {Teal, Orange}

HexDigit == <<"0", "1", "2", "3", "4", "5", "6", "7",
              "8", "9", "a", "b", "c", "d", "e", "f">>

Hex2(v) == HexDigit[(v \div 16) + 1] \o HexDigit[(v % 16) + 1]

\* formatHex: canonical lowercase '#rrggbb'
formatHex(c) == "#" \o Hex2(c.r) \o Hex2(c.g) \o Hex2(c.b)

\* The color strings given to the program: lowercase hex, the same hex in
\* capitals, and text that is no color.
UpperHex == [h \in {"#1b9e77", "#d95f02"} |->
                IF h = "#1b9e77" THEN "#1B9E77" ELSE "#D95F02"]

HexStrings == {"#1b9e77", "#1B9E77", "#d95f02"}

BadStrings == {"not-a-color"}

ColorStrings == HexStrings \cup BadStrings

\* Backgrounds whose text color is asked for: white, black and the two
\* grays on either side of the luminance 0.179 (0.1779 and 0.1812). They are
\* given to the luminance functions only, never to the library's comparisons.
White == Color(255, 255, 255)

Black == Color(0, 0, 0)

Gray117 == Color(117, 117, 117)

Gray118 == Color(118, 118, 118)

Shades == {White, Black, Gray117, Gray118}

\* A third palette color, for the palettes that are reordered
Purple == Color(117, 112, 179)

BackgroundStrings == ColorStrings \cup {formatHex(c) : c \in Shades}

ReorderColors == {Teal, Orange, Purple}

ReorderStrings == {formatHex(c) : c \in ReorderColors} \cup BadStrings

\* The spellings of a color: lowercase, and in capitals where given
Spellings(c) ==
    {formatHex(c)} \cup
    (IF formatHex(c) \in DOMAIN UpperHex THEN {UpperHex[formatHex(c)]} ELSE {})

\* The Color each string spells, in either letter case, or undefined
Spelled ==
    [s \in BackgroundStrings \cup ReorderStrings |->
        IF \E c \in KnownColors \cup Shades \cup {Purple} : s \in Spellings(c)
        THEN CHOOSE c \in KnownColors \cup Shades \cup {Purple} :
                 s \in Spellings(c)
        ELSE Undefined]

parse(s) == Spelled[s]

CVDTypes == {"protanopia", "deuteranopia", "tritanopia"}

\* What differenceCiede2000 may answer for two different colors.
DeltaEOutcomes == {0, 3 * Scale, 5 * Scale, (25 * Scale) \div 2}

\* What wcagContrast may answer for two different colors (1 .. 21).
ContrastOutcomes == {3 * Scale, (9 * Scale) \div 2, 21 * Scale}

\* What a deficiency filter may do: keep every color, map every color to
\* the same one, or yield no color.
FilterOutcomes ==
    {[c \in KnownColors |-> c],
     [c \in KnownColors |-> Teal],
     [c \in KnownColors |-> Undefined]}

ColorPairs == {{a, b} : a, b \in KnownColors} \ {{c} : c \in KnownColors}

Libraries ==
    [ciede2000 : [ColorPairs -> DeltaEOutcomes],
     wcag : [ColorPairs -> ContrastOutcomes],
     deficiency : [CVDTypes -> FilterOutcomes]]

differenceCiede2000(c1, c2) == IF c1 = c2 THEN 0 ELSE lib.ciede2000[{c1, c2}]

wcagContrast(c1, c2) == IF c1 = c2 THEN Scale ELSE lib.wcag[{c1, c2}]

filterDeficiency(type, c) == lib.deficiency[type][c]

\* converter('rgb'): the channels as fractions of 255
toRgb(c) == [r |-> Rat(c.r, 255), g |-> Rat(c.g, 255), b |-> Rat(c.b, 255)]

\* converter('hsl') on the palette colors: hue in degrees, saturation and
\* lightness in 0..1, as fractions (h = 162.14, s = 0.7081, l = 0.3627 for
\* #1b9e77; h = 25.95, s = 0.9817, l = 0.4294 for #d95f02)
toHsl(c) ==
    IF c = Teal
    THEN [h |-> Rat(16214, 100), s |-> Rat(7081, 10000), l |-> Rat(3627, 10000)]
    ELSE [h |-> Rat(2595, 100), s |-> Rat(9817, 10000), l |-> Rat(4294, 10000)]

\* converter('lab') on the palette colors: CIELAB under D50, as fractions
\* (57.92, -42.23, 10.47 for #1b9e77; 55.73, 46.36, 64.65 for #d95f02)
toLab(c) ==
    IF c = Teal
    THEN [l |-> Rat(5792, 100), a |-> Rat(-4223, 100), b |-> Rat(1047, 100)]
    ELSE [l |-> Rat(5573, 100), a |-> Rat(4636, 100), b |-> Rat(6465, 100)]

----------------------------------------------------------------------------
(* colorUtils.ts *)

\* Faulty variant: the fallback is the normalised hex of the parsed color
\* instead of the string that was given.
simulateCVDNormalised(color, type) ==
    LET parsed == parse(color) IN
    IF parsed = Undefined THEN color
    ELSE LET simulated == filterDeficiency(type, parsed) IN
         IF simulated # Undefined THEN formatHex(simulated) ELSE formatHex(parsed)

simulateCVD(color, type) ==
    LET parsed == parse(color) IN
    IF parsed = Undefined THEN color
    ELSE LET simulated == filterDeficiency(type, parsed) IN
         IF simulated # Undefined THEN formatHex(simulated) ELSE color

\* Faulty variant: a color that occurs again later in the palette is
\* simulated once only.
simulatePaletteCVDDistinct(cs, type) ==
    LET firsts == SelectSeq([k \in 1..Len(cs) |-> <<k, cs[k]>>],
                            LAMBDA e : \A h \in 1..(e[1] - 1) : cs[h] # e[2])
    IN  [k \in 1..Len(firsts) |-> simulateCVD(firsts[k][2], type)]

\* colors.map(color => simulateCVD(color, type))
simulatePaletteCVD(cs, type) == [k \in 1..Len(cs) |-> simulateCVD(cs[k], type)]

\* Faulty variant: an unparseable color counts as a contrast of 1.
getContrastRatioFallbackOne(color1, color2) ==
    LET c1 == parse(color1)
        c2 == parse(color2)
    IN  IF c1 = Undefined \/ c2 = Undefined THEN Scale ELSE wcagContrast(c1, c2)

\* Faulty variant: only an unparseable first color gives 0; an unparseable
\* second color is taken for a color equal to the first.
getContrastRatioFirstOnly(color1, color2) ==
    LET c1 == parse(color1)
        c2 == parse(color2)
    IN  IF c1 = Undefined THEN 0
        ELSE IF c2 = Undefined THEN wcagContrast(c1, c1)
        ELSE wcagContrast(c1, c2)

getContrastRatio(color1, color2) ==
    LET c1 == parse(color1)
        c2 == parse(color2)
    IN  IF c1 = Undefined \/ c2 = Undefined THEN 0 ELSE wcagContrast(c1, c2)

\* Faulty variant: the two branches are swapped.
getWCAGLevelSwapped(contrastRatio, isLargeText) ==
    IF ~isLargeText
    THEN IF 2 * contrastRatio >= 9 * Scale THEN "AAA"
         ELSE IF contrastRatio >= 3 * Scale THEN "AA"
         ELSE "Fail"
    ELSE IF contrastRatio >= 7 * Scale THEN "AAA"
         ELSE IF 2 * contrastRatio >= 9 * Scale THEN "AA"
         ELSE "Fail"

getWCAGLevel(contrastRatio, isLargeText) ==
    IF isLargeText
    THEN IF 2 * contrastRatio >= 9 * Scale THEN "AAA"
         ELSE IF contrastRatio >= 3 * Scale THEN "AA"
         ELSE "Fail"
    ELSE IF contrastRatio >= 7 * Scale THEN "AAA"
         ELSE IF 2 * contrastRatio >= 9 * Scale THEN "AA"
         ELSE "Fail"

\* Faulty variant: an unparseable color is reported by the difference -1
getDeltaENegativeFallback(color1, color2) ==
    LET c1 == parse(color1)
        c2 == parse(color2)
    IN  IF c1 = Undefined \/ c2 = Undefined THEN -Scale
        ELSE differenceCiede2000(c1, c2)

getDeltaE(color1, color2) ==
    LET c1 == parse(color1)
        c2 == parse(color2)
    IN  IF c1 = Undefined \/ c2 = Undefined THEN 0
        ELSE differenceCiede2000(c1, c2)

\* Faulty variant: the thresholds are exclusive (> for >=).
getDistinguishabilityLevelStrict(deltaE) ==
    IF deltaE > 10 * Scale THEN "excellent"
    ELSE IF deltaE > 5 * Scale THEN "good"
    ELSE IF deltaE > 2 * Scale THEN "poor"
    ELSE "indistinguishable"

getDistinguishabilityLevel(deltaE) ==
    IF deltaE >= 10 * Scale THEN "excellent"
    ELSE IF deltaE >= 5 * Scale THEN "good"
    ELSE IF deltaE >= 2 * Scale THEN "poor"
    ELSE "indistinguishable"

\* The record pushed for the pair (i, j); i and j are the 0-based indices
\* of the source, cs[i + 1] is colors[i].
\* Faulty variant: the WCAG level is taken under the large-text thresholds
ColorPairAnalysisLargeText(cs, i, j) ==
    LET deltaE == getDeltaE(cs[i + 1], cs[j + 1])
        contrastRatio == getContrastRatio(cs[i + 1], cs[j + 1])
    IN  [color1 |-> cs[i + 1],
         color2 |-> cs[j + 1],
         index1 |-> i,
         index2 |-> j,
         deltaE |-> deltaE,
         contrastRatio |-> contrastRatio,
         wcagLevel |-> getWCAGLevel(contrastRatio, TRUE),
         distinguishability |-> getDistinguishabilityLevel(deltaE)]

ColorPairAnalysis(cs, i, j) ==
    LET deltaE == getDeltaE(cs[i + 1], cs[j + 1])
        contrastRatio == getContrastRatio(cs[i + 1], cs[j + 1])
    IN  [color1 |-> cs[i + 1],
         color2 |-> cs[j + 1],
         index1 |-> i,
         index2 |-> j,
         deltaE |-> deltaE,
         contrastRatio |-> contrastRatio,
         wcagLevel |-> getWCAGLevel(contrastRatio, FALSE),
         distinguishability |-> getDistinguishabilityLevel(deltaE)]

\* for (let j = ...; j < colors.length; j++) pairs.push(...)
RECURSIVE InnerLoop(_, _, _, _)
InnerLoop(cs, i, j, acc) ==
    IF j < Len(cs)
    THEN InnerLoop(cs, i, j + 1, Append(acc, ColorPairAnalysis(cs, i, j)))
    ELSE acc

\* Faulty variant: let j = i, which pairs every color with itself.
InnerStartAtI(i) == i

\* let j = i + 1
InnerStart(i) == i + 1

\* for (let i = 0; i < colors.length; i++)
RECURSIVE OuterLoop(_, _, _)
OuterLoop(cs, i, acc) ==
    IF i < Len(cs)
    THEN OuterLoop(cs, i + 1, InnerLoop(cs, i, InnerStart(i), acc))
    ELSE acc

analyzePalettePairs(cs) == OuterLoop(cs, 0, <<>>)

\* Faulty variant: the first difference is taken for the least
ArrayFirst(xs) == xs[1]

\* Math.min(...xs) of a non-empty array
RECURSIVE ArrayMin(_)
ArrayMin(xs) ==
    IF Len(xs) = 1 THEN xs[1]
    ELSE LET m == ArrayMin(Tail(xs)) IN IF m < xs[1] THEN m ELSE xs[1]

\* xs.reduce((a, b) => a + b, 0): from the left, starting at 0
RECURSIVE ArraySum(_)
ArraySum(xs) ==
    IF xs = <<>> THEN 0
    ELSE FloatAdd(ArraySum(SubSeq(xs, 1, Len(xs) - 1)), xs[Len(xs)])

\* Faulty variant: p.deltaE <= limit.
RECURSIVE CountAtMost(_, _)
CountAtMost(ps, limit) ==
    IF ps = <<>> THEN 0
    ELSE (IF ps[1].deltaE <= limit THEN 1 ELSE 0) + CountAtMost(Tail(ps), limit)

\* ps.filter(p => p.deltaE < limit).length
RECURSIVE CountBelow(_, _)
CountBelow(ps, limit) ==
    IF ps = <<>> THEN 0
    ELSE (IF ps[1].deltaE < limit THEN 1 ELSE 0) + CountBelow(Tail(ps), limit)

\* Faulty variant: p.deltaE <= 3.
hasIndistinguishableAtMost(simulatedPairs) ==
    \E k \in 1..Len(simulatedPairs) : simulatedPairs[k].deltaE <= 3 * Scale

\* Faulty variant: the limit is 10, above the limit of the preview.
hasIndistinguishableBelowTen(simulatedPairs) ==
    \E k \in 1..Len(simulatedPairs) : simulatedPairs[k].deltaE < 10 * Scale

\* simulatedPairs.some(p => p.deltaE < 3)
hasIndistinguishable(simulatedPairs) ==
    \E k \in 1..Len(simulatedPairs) : simulatedPairs[k].deltaE < 3 * Scale

\* The body of the loop over cvdTypes: the flag written to cvdSafe[cvdType]
cvdSafeFor(cs, cvdType) ==
    LET simulatedColors == simulatePaletteCVD(cs, cvdType)
        simulatedPairs == analyzePalettePairs(simulatedColors)
    IN  ~hasIndistinguishable(simulatedPairs)

\* Faulty variant: the cap of 40 points is missing.
deltaEScoreUncapped(minDeltaE) == Rat(minDeltaE * 40, Scale * 10)

\* Math.min(40, (minDeltaE / 10) * 40)
deltaEScore(minDeltaE) == MathMin(Rat(40, 1), Rat(minDeltaE * 40, Scale * 10))

\* Math.min(30, ((avgContrast - 1) / 3.5) * 30), avgContrast = sum / n
\* Faulty variant: the contrast term without its cap of 30
contrastScoreUncapped(avgContrast) ==
    Rat((avgContrast.num - avgContrast.den * Scale) * 60,
        avgContrast.den * Scale * 7)

contrastScore(avgContrast) ==
    MathMin(Rat(30, 1),
            Rat((avgContrast.num - avgContrast.den * Scale) * 60,
                avgContrast.den * Scale * 7))

cvdScore(cvdSafe) ==
    (IF cvdSafe["protanopia"] THEN 10 ELSE 0)
  + (IF cvdSafe["deuteranopia"] THEN 10 ELSE 0)
  + (IF cvdSafe["tritanopia"] THEN 10 ELSE 0)

\* Faulty variant: a palette without pairs scores 0.
DegenerateScoreZero ==
    [overallScore |-> 0,
     minDeltaE |-> 0,
     avgDeltaE |-> Rat(0, 1),
     minContrast |-> 0,
     avgContrast |-> Rat(0, 1),
     problematicPairs |-> 0,
     totalPairs |-> 0,
     cvdSafe |-> [t \in CVDTypes |-> TRUE]]

\* The record returned when the palette has no pair
DegenerateScore ==
    [overallScore |-> 100,
     minDeltaE |-> 0,
     avgDeltaE |-> Rat(0, 1),
     minContrast |-> 0,
     avgContrast |-> Rat(0, 1),
     problematicPairs |-> 0,
     totalPairs |-> 0,
     cvdSafe |-> [t \in CVDTypes |-> TRUE]]

calculateAccessibilityScore(cs) ==
    LET ps == analyzePalettePairs(cs)
        totalPairs == Len(ps)
    IN  IF totalPairs = 0 THEN DegenerateScore
        ELSE
        LET deltaEs == [k \in 1..totalPairs |-> ps[k].deltaE]
            contrasts == [k \in 1..totalPairs |-> ps[k].contrastRatio]
            minDeltaE == ArrayMin(deltaEs)
            avgDeltaE == Rat(ArraySum(deltaEs), totalPairs)
            minContrast == ArrayMin(contrasts)
            avgContrast == Rat(ArraySum(contrasts), totalPairs)
            problematicPairs == CountBelow(ps, 5 * Scale)
            cvdSafe == [t \in CVDTypes |-> cvdSafeFor(cs, t)]
            overallScore ==
                MathRound(RatAdd(RatAdd(deltaEScore(minDeltaE),
                                        contrastScore(avgContrast)),
                                 Rat(cvdScore(cvdSafe), 1)))
        IN  [overallScore |-> overallScore,
             minDeltaE |-> minDeltaE,
             avgDeltaE |-> avgDeltaE,
             minContrast |-> minContrast,
             avgContrast |-> avgContrast,
             problematicPairs |-> problematicPairs,
             totalPairs |-> totalPairs,
             cvdSafe |-> cvdSafe]

\* The caller's array.  A JavaScript array is passed by reference, so a
\* function can change the palette it is given; the operators below give the
\* contents of the array passed after the call returns.

\* Faulty variant: the simulation overwrites the elements of the array given
\* (colors.forEach((color, k) => colors[k] = simulateCVD(color, type)))
colorsAfterSimulateInPlace(cs, type) == simulatePaletteCVD(cs, type)

\* colors.map(...) builds a new array and assigns to no element of colors
colorsAfterSimulatePaletteCVD(cs, type) == cs

\* The loops read colors.length and colors[i], colors[j]; pairs is a new array
colorsAfterAnalyzePalettePairs(cs) == cs

\* analyzePalettePairs(colors), then for each deficiency type
\* simulatePaletteCVD(colors, cvdType) and analyzePalettePairs of its result
colorsAfterCalculateAccessibilityScore(cs) ==
    LET analysed == colorsAfterAnalyzePalettePairs(cs) IN
    IF Len(analyzePalettePairs(cs)) = 0 THEN analysed
    ELSE colorsAfterSimulatePaletteCVD(
             colorsAfterSimulatePaletteCVD(
                 colorsAfterSimulatePaletteCVD(analysed, "protanopia"),
                 "deuteranopia"),
             "tritanopia")

\* Math.pow((c + 0.055) / 1.055, 2.4) for the channel value c = v / 255,
\* in units of 1/10000, for the channels of the known colors and shades.
GammaExpanded ==
    [v \in {27, 95, 117, 118, 119, 158, 217, 255} |->
        CASE v = 27 -> 110
          [] v = 95 -> 1144
          [] v = 117 -> 1779
          [] v = 118 -> 1812
          [] v = 119 -> 1845
          [] v = 158 -> 3419
          [] v = 217 -> 6939
          [] v = 255 -> 10000]

\* One channel of the relative luminance, in units of 1/10000:
\* c <= 0.03928 ? c / 12.92 : Math.pow((c + 0.055) / 1.055, 2.4)
Linearized(v) ==
    IF v * 100000 <= 3928 * 255
    THEN (v * 1000000 + (255 * 1292) \div 2) \div (255 * 1292)
    ELSE GammaExpanded[v]

\* The relative luminance, in units of 1/100000000
getLuminance(color) ==
    LET parsed == parse(color) IN
    IF parsed = Undefined THEN 0
    ELSE 2126 * Linearized(parsed.r) + 7152 * Linearized(parsed.g)
         + 722 * Linearized(parsed.b)

\* x * k for a fraction x
RatTimes(a, k) == Rat(a.num * k, a.den)

\* getColorInfo's null
Null == [null |-> TRUE]

\* Faulty variant: the hex field is the string that was given
getColorInfoRawHex(color) ==
    LET parsed == parse(color) IN
    IF parsed = Undefined THEN Null
    ELSE LET lab == toLab(parsed)
             hsl == toHsl(parsed)
             rgb == toRgb(parsed)
         IN  [hex |-> color,
              rgb |-> [r |-> MathRound(RatTimes(rgb.r, 255)),
                       g |-> MathRound(RatTimes(rgb.g, 255)),
                       b |-> MathRound(RatTimes(rgb.b, 255))],
              hsl |-> [h |-> MathRound(hsl.h),
                       s |-> MathRound(RatTimes(hsl.s, 100)),
                       l |-> MathRound(RatTimes(hsl.l, 100))],
              lab |-> [l |-> MathRound(lab.l),
                       a |-> MathRound(lab.a),
                       b |-> MathRound(lab.b)]]

getColorInfo(color) ==
    LET parsed == parse(color) IN
    IF parsed = Undefined THEN Null
    ELSE LET lab == toLab(parsed)
             hsl == toHsl(parsed)
             rgb == toRgb(parsed)
         IN  [hex |-> formatHex(parsed),
              rgb |-> [r |-> MathRound(RatTimes(rgb.r, 255)),
                       g |-> MathRound(RatTimes(rgb.g, 255)),
                       b |-> MathRound(RatTimes(rgb.b, 255))],
              hsl |-> [h |-> MathRound(hsl.h),
                       s |-> MathRound(RatTimes(hsl.s, 100)),
                       l |-> MathRound(RatTimes(hsl.l, 100))],
              lab |-> [l |-> MathRound(lab.l),
                       a |-> MathRound(lab.a),
                       b |-> MathRound(lab.b)]]

\* Faulty variant: black text on the lighter half of the luminance range
getTextColorMidpoint(backgroundColor) ==
    LET luminance == getLuminance(backgroundColor) IN
    IF luminance > 50000000 THEN "#000000" ELSE "#ffffff"

\* luminance > 0.179 ? '#000000' : '#ffffff'
getTextColor(backgroundColor) ==
    LET luminance == getLuminance(backgroundColor) IN
    IF luminance > 17900000 THEN "#000000" ELSE "#ffffff"

----------------------------------------------------------------------------
(* AccessibilityReport.tsx *)

\* Faulty variant: the comparator of a descending sort
compareDescending(a, b) == b.deltaE - a.deltaE

\* (a, b) => a.deltaE - b.deltaE
compareDeltaE(a, b) == a.deltaE - b.deltaE

\* One element put into a sorted array: behind every element that does not
\* compare greater than it (Array.prototype.sort is stable)
InsertSorted(sorted, x) ==
    SelectSeq(sorted, LAMBDA e : compareDeltaE(e, x) <= 0) \o <<x>>
    \o SelectSeq(sorted, LAMBDA e : compareDeltaE(e, x) > 0)

\* [...pairs].sort((a, b) => a.deltaE - b.deltaE): the sorted copy
RECURSIVE SortedCopy(_)
SortedCopy(ps) ==
    IF ps = <<>> THEN <<>>
    ELSE InsertSorted(SortedCopy(SubSeq(ps, 1, Len(ps) - 1)), ps[Len(ps)])

\* The array pairs after the sort: the spread [...pairs] copies it first
pairsAfterSort(ps) == ps

\* Faulty variant: the list is not cut after five pairs.
NeedingAttentionUnsliced(sorted) ==
    SelectSeq(sorted, LAMBDA p : p.deltaE < 10 * Scale)

\* sortedPairs.filter(p => p.deltaE < 10).slice(0, 5)
NeedingAttention(sorted) ==
    LET filtered == SelectSeq(sorted, LAMBDA p : p.deltaE < 10 * Scale)
    IN  SubSeq(filtered, 1, IF Len(filtered) < 5 THEN Len(filtered) ELSE 5)

----------------------------------------------------------------------------
(* CVDSimulation.tsx *)

\* Faulty variant: a pair at deltaE exactly 3 also fails the check
checkDistinguishabilityAtMost(simulatedPalette) ==
    \A i \in 0..(Len(simulatedPalette) - 1) :
        \A j \in (i + 1)..(Len(simulatedPalette) - 1) :
            ~(getDeltaE(simulatedPalette[i + 1], simulatedPalette[j + 1])
                  <= 3 * Scale)

\* The two loops return false at the first pair i < j with deltaE < 3 and
\* true when they end without one.
checkDistinguishability(simulatedPalette) ==
    \A i \in 0..(Len(simulatedPalette) - 1) :
        \A j \in (i + 1)..(Len(simulatedPalette) - 1) :
            ~(getDeltaE(simulatedPalette[i + 1], simulatedPalette[j + 1])
                  < 3 * Scale)

\* isDistinguishable ? 'Safe' : 'Warning'
Badge(verdict) == IF verdict THEN "Safe" ELSE "Warning"

----------------------------------------------------------------------------
(* VisualPreview.tsx *)

\* The panels of the grid: normal vision and the three deficiency types
PreviewTypes == {"normal"} \cup CVDTypes

\* `${p.index1 + 1} & ${p.index2 + 1}`
PairDescription(p) == ToString(p.index1 + 1) \o " & " \o ToString(p.index2 + 1)

\* problematicPairs.slice(0, 2).map(...).join(', ')
RECURSIVE JoinDescriptions(_)
JoinDescriptions(ps) ==
    IF Len(ps) = 1 THEN PairDescription(ps[1])
    ELSE PairDescription(ps[1]) \o ", " \o JoinDescriptions(Tail(ps))

checkColorDistinguishability(simulatedPalette) ==
    LET analysed == analyzePalettePairs(simulatedPalette)
        below5 == SelectSeq(analysed, LAMBDA p : p.deltaE < 5 * Scale)
    IN  IF Len(below5) = 0
        THEN [isDistinct |-> TRUE, message |-> "All colors are clearly distinct"]
        ELSE [isDistinct |-> FALSE,
              message |-> "Colors "
                  \o JoinDescriptions(SubSeq(below5, 1,
                          IF Len(below5) < 2 THEN Len(below5) ELSE 2))
                  \o " may be difficult to distinguish"]

----------------------------------------------------------------------------
(* The engine applied to a palette *)

RECURSIVE SeqsUpTo(_, _)
SeqsUpTo(S, n) ==
    IF n = 0 THEN {<<>>}
    ELSE LET shorter == SeqsUpTo(S, n - 1)
         IN  shorter \cup {Append(q, x) : q \in shorter, x \in S}

\* The palettes given to the engine
Palettes == SeqsUpTo(ColorStrings, MaxLen)

NoCall == [fn |-> "none", args |-> <<>>, ret |-> <<>>]

Init ==
    /\ lib \in Libraries
    /\ colors \in Palettes
    /\ pairs = <<>>
    /\ score = <<>>
    /\ simulations = <<>>
    /\ sortedPairs = <<>>
    /\ attentionList = <<>>
    /\ isDistinguishable = <<>>
    /\ distinctCheck = <<>>
    /\ paletteMetadata = Null
    /\ call = NoCall
    /\ env = Null
    /\ request = Null
    /\ prompts = <<>>
    /\ response = Null

\* One run of the engine on the palette: the entry points applied to it,
\* as the report does (const score = ..., const pairs = ...) and as the
\* simulation panel does for each deficiency type (simulatePaletteCVD), and
\* the two lists the report derives from pairs; for an empty palette the
\* report returns before deriving them, and so does the simulation panel
\* before its badges.  The verdicts of the preview grid are those it shows
\* once a preview has been generated.
Analyse ==
    /\ call = NoCall
    /\ pairs' = pairsAfterSort(analyzePalettePairs(colors))
    /\ score' = calculateAccessibilityScore(colors)
    /\ sortedPairs' = IF Len(colors) = 0 THEN <<>>
                      ELSE SortedCopy(analyzePalettePairs(colors))
    /\ attentionList' = IF Len(colors) = 0 THEN <<>>
                           ELSE NeedingAttention(SortedCopy(analyzePalettePairs(colors)))
    /\ simulations' = [type \in CVDTypes |-> simulatePaletteCVD(colors, type)]
    /\ isDistinguishable' =
           IF Len(colors) = 0 THEN <<>>
           ELSE [type \in CVDTypes |->
                    checkDistinguishability(simulatePaletteCVD(colors, type))]
    /\ distinctCheck' =
           [type \in PreviewTypes |->
               checkColorDistinguishability(
                   IF type = "normal" THEN colors
                   ELSE simulatePaletteCVD(colors, type))]
    /\ colors' = colorsAfterSimulatePaletteCVD(
                     colorsAfterSimulatePaletteCVD(
                         colorsAfterSimulatePaletteCVD(
                             colorsAfterAnalyzePalettePairs(
                                 colorsAfterCalculateAccessibilityScore(colors)),
                             "protanopia"),
                         "deuteranopia"),
                     "tritanopia")
    /\ call' = [fn |-> "calculateAccessibilityScore", args |-> <<colors>>, ret |-> <<>>]
    /\ UNCHANGED <<routeVars, lib, paletteMetadata>>

Next == Analyse

Spec == Init /\ [][Next]_vars

\* The engine has run on colors
Analysed == call.fn = "calculateAccessibilityScore"

----------------------------------------------------------------------------
(* Single calls of the exported functions *)

\* Contrast ratios and color differences given to the classifiers: each
\* threshold of the source, the value just below it and the ends.
RatioSamples ==
    {0, Scale, 3 * Scale - 1, 3 * Scale, (9 * Scale) \div 2 - 1, (9 * Scale) \div 2,
     7 * Scale - 1, 7 * Scale, 21 * Scale}

DeltaESamples ==
    {0, 2 * Scale - 1, 2 * Scale, 5 * Scale - 1, 5 * Scale,
     10 * Scale - 1, 10 * Scale, (25 * Scale) \div 2}

InitFn ==
    /\ lib \in Libraries
    /\ colors = <<>>
    /\ pairs = <<>>
    /\ score = <<>>
    /\ simulations = <<>>
    /\ sortedPairs = <<>>
    /\ attentionList = <<>>
    /\ isDistinguishable = <<>>
    /\ distinctCheck = <<>>
    /\ paletteMetadata = Null
    /\ call = NoCall
    /\ env = Null
    /\ request = Null
    /\ prompts = <<>>
    /\ response = Null

\* getWCAGLevel(contrastRatio) and getWCAGLevel(contrastRatio, isLargeText):
\* the parameter left out takes its default, false.
CallGetWCAGLevel(args) ==
    /\ call = NoCall
    /\ call' = [fn |-> "getWCAGLevel", args |-> args,
                ret |-> getWCAGLevel(args[1],
                                     IF Len(args) >= 2 THEN args[2] ELSE FALSE)]
    /\ UNCHANGED <<routeVars, lib, colors, pairs, score, simulations, sortedPairs,
                   attentionList, isDistinguishable, distinctCheck,
                   paletteMetadata>>

CallGetDistinguishabilityLevel(deltaE) ==
    /\ call = NoCall
    /\ call' = [fn |-> "getDistinguishabilityLevel", args |-> <<deltaE>>,
                ret |-> getDistinguishabilityLevel(deltaE)]
    /\ UNCHANGED <<routeVars, lib, colors, pairs, score, simulations, sortedPairs,
                   attentionList, isDistinguishable, distinctCheck,
                   paletteMetadata>>

CallGetDeltaE(color1, color2) ==
    /\ call = NoCall
    /\ call' = [fn |-> "getDeltaE", args |-> <<color1, color2>>,
                ret |-> getDeltaE(color1, color2)]
    /\ UNCHANGED <<routeVars, lib, colors, pairs, score, simulations, sortedPairs,
                   attentionList, isDistinguishable, distinctCheck,
                   paletteMetadata>>

CallGetContrastRatio(color1, color2) ==
    /\ call = NoCall
    /\ call' = [fn |-> "getContrastRatio", args |-> <<color1, color2>>,
                ret |-> getContrastRatio(color1, color2)]
    /\ UNCHANGED <<routeVars, lib, colors, pairs, score, simulations, sortedPairs,
                   attentionList, isDistinguishable, distinctCheck,
                   paletteMetadata>>

CallGetLuminance(color) ==
    /\ call = NoCall
    /\ call' = [fn |-> "getLuminance", args |-> <<color>>,
                ret |-> getLuminance(color)]
    /\ UNCHANGED <<routeVars, lib, colors, pairs, score, simulations, sortedPairs,
                   attentionList, isDistinguishable, distinctCheck,
                   paletteMetadata>>

CallSimulateCVD(color, type) ==
    /\ call = NoCall
    /\ call' = [fn |-> "simulateCVD", args |-> <<color, type>>,
                ret |-> simulateCVD(color, type)]
    /\ UNCHANGED <<routeVars, lib, colors, pairs, score, simulations, sortedPairs,
                   attentionList, isDistinguishable, distinctCheck,
                   paletteMetadata>>

CallGetTextColor(backgroundColor) ==
    /\ call = NoCall
    /\ call' = [fn |-> "getTextColor", args |-> <<backgroundColor>>,
                ret |-> getTextColor(backgroundColor)]
    /\ UNCHANGED <<routeVars, lib, colors, pairs, score, simulations, sortedPairs,
                   attentionList, isDistinguishable, distinctCheck,
                   paletteMetadata>>

CallGetColorInfo(color) ==
    /\ call = NoCall
    /\ call' = [fn |-> "getColorInfo", args |-> <<color>>,
                ret |-> getColorInfo(color)]
    /\ UNCHANGED <<routeVars, lib, colors, pairs, score, simulations, sortedPairs,
                   attentionList, isDistinguishable, distinctCheck,
                   paletteMetadata>>

NextFn ==
    \/ \E r \in RatioSamples : CallGetWCAGLevel(<<r>>)
    \/ \E r \in RatioSamples, b \in BOOLEAN : CallGetWCAGLevel(<<r, b>>)
    \/ \E d \in DeltaESamples : CallGetDistinguishabilityLevel(d)
    \/ \E c1, c2 \in ColorStrings : CallGetDeltaE(c1, c2)
    \/ \E c1, c2 \in ColorStrings : CallGetContrastRatio(c1, c2)
    \/ \E c \in ColorStrings : CallGetLuminance(c)
    \/ \E c \in ColorStrings, t \in CVDTypes : CallSimulateCVD(c, t)
    \/ \E c \in BackgroundStrings : CallGetTextColor(c)
    \/ \E c \in ColorStrings : CallGetColorInfo(c)

SpecFn == InitFn /\ [][NextFn]_vars

----------------------------------------------------------------------------
(* The page: Home and its handlers (src/unnamed/part_002) *)

\* The metadata that come with a palette of the remote model
Metadata ==
    [description : {"sales by region"},
     paletteName : {"Harbor"},
     dataType : {"categorical", "diverging"}]

\* Faulty variant: the new color is put in before entry index
\* (updatedColors.splice(index, 0, newColor))
updatedColorsSpliced(cs, index, newColor) ==
    SubSeq(cs, 1, index) \o <<newColor>> \o SubSeq(cs, index + 1, Len(cs))

\* const updatedColors = [...colors]; updatedColors[index] = newColor
updatedColors(cs, index, newColor) == [cs EXCEPT ![index + 1] = newColor]

\* useState([]) and useState(null); the library is not consulted by the
\* handlers and the panels are not modelled here.
InitHome ==
    /\ lib = <<>>
    /\ colors = <<>>
    /\ pairs = <<>>
    /\ score = <<>>
    /\ simulations = <<>>
    /\ sortedPairs = <<>>
    /\ attentionList = <<>>
    /\ isDistinguishable = <<>>
    /\ distinctCheck = <<>>
    /\ paletteMetadata = Null
    /\ call = NoCall
    /\ env = Null
    /\ request = Null
    /\ prompts = <<>>
    /\ response = Null

handlePaletteGenerated(newColors) ==
    /\ colors' = newColors
    /\ call' = [fn |-> "handlePaletteGenerated", args |-> <<newColors>>,
                ret |-> <<>>]
    /\ UNCHANGED <<routeVars, lib, pairs, score, simulations, sortedPairs, attentionList,
                   isDistinguishable, distinctCheck, paletteMetadata>>

handleAIPaletteGenerated(newColors, metadata) ==
    /\ colors' = newColors
    /\ paletteMetadata' = metadata
    /\ call' = [fn |-> "handleAIPaletteGenerated",
                args |-> <<newColors, metadata>>, ret |-> <<>>]
    /\ UNCHANGED <<routeVars, lib, pairs, score, simulations, sortedPairs, attentionList,
                   isDistinguishable, distinctCheck>>

\* The handler of the render that shows colors; the swatches, and so the
\* indices that can be edited, are those of the current palette.  In the
\* record of the call, args[1] is the palette the handler closes over.
handleColorChange(index, newColor) ==
    /\ index \in 0..(Len(colors) - 1)
    /\ colors' = updatedColors(colors, index, newColor)
    /\ call' = [fn |-> "handleColorChange",
                args |-> <<colors, index, newColor>>, ret |-> <<>>]
    /\ UNCHANGED <<routeVars, lib, pairs, score, simulations, sortedPairs, attentionList,
                   isDistinguishable, distinctCheck, paletteMetadata>>

NextHome ==
    \/ \E newColors \in Palettes : handlePaletteGenerated(newColors)
    \/ \E newColors \in Palettes, metadata \in Metadata :
           handleAIPaletteGenerated(newColors, metadata)
    \/ \E index \in 0..(MaxLen - 1), newColor \in ColorStrings :
           handleColorChange(index, newColor)

SpecHome == InitHome /\ [][NextHome]_vars

----------------------------------------------------------------------------
(* The score of a palette and of the same colors in another order *)

\* Behaviours of the library on three colors: each pair of colors is either
\* very close (0.01) or so far apart that adding 0.01 to their difference is
\* lost in the rounding of the sum; the contrasts are 3, 4.5 and 21; the
\* deuteranopia filter gives teal for every color, the other filters leave
\* the colors alone.
ReorderPairs ==
    {{a, b} : a, b \in ReorderColors} \ {{c} : c \in ReorderColors}

ReorderContrasts ==
    [p \in ReorderPairs |->
        IF p = {Teal, Orange} THEN 3 * Scale
        ELSE IF p = {Teal, Purple} THEN (9 * Scale) \div 2
        ELSE 21 * Scale]

ReorderFilters ==
    [t \in CVDTypes |->
        IF t = "deuteranopia" THEN [c \in ReorderColors |-> Teal]
        ELSE [c \in ReorderColors |-> c]]

ReorderLibraries ==
    [ciede2000 : [ReorderPairs -> {1, Pow2(SignificandBits)}],
     wcag : {ReorderContrasts},
     deficiency : {ReorderFilters}]

InitReorder ==
    /\ lib \in ReorderLibraries
    /\ colors \in SeqsUpTo(ReorderStrings, MaxLen)
    /\ pairs = <<>>
    /\ score = <<>>
    /\ simulations = <<>>
    /\ sortedPairs = <<>>
    /\ attentionList = <<>>
    /\ isDistinguishable = <<>>
    /\ distinctCheck = <<>>
    /\ paletteMetadata = Null
    /\ call = NoCall
    /\ env = Null
    /\ request = Null
    /\ prompts = <<>>
    /\ response = Null

\* calculateAccessibilityScore and analyzePalettePairs of the palette, and
\* calculateAccessibilityScore of the palette reordered by perm (entry k of
\* the reordered palette is entry perm[k] of colors)
Reorder(perm) ==
    /\ call = NoCall
    /\ pairs' = analyzePalettePairs(colors)
    /\ score' = calculateAccessibilityScore(colors)
    /\ call' = [fn |-> "calculateAccessibilityScore",
                args |-> <<[k \in 1..Len(colors) |-> colors[perm[k]]]>>,
                ret |-> calculateAccessibilityScore(
                            [k \in 1..Len(colors) |-> colors[perm[k]]])]
    /\ UNCHANGED <<routeVars, lib, colors, simulations, sortedPairs, attentionList,
                   isDistinguishable, distinctCheck, paletteMetadata>>

NextReorder == \E perm \in Permutations(1..Len(colors)) : Reorder(perm)

SpecReorder == InitReorder /\ [][NextReorder]_vars

----------------------------------------------------------------------------
(* The report of a palette of up to ReportLen colors *)

\* Behaviours of the library on three colors: each pair of colors differs by
\* 3 or by 12.5; contrasts and filters as for the reordered palettes.
ReportLibraries ==
    [ciede2000 : [ReorderPairs -> {3 * Scale, (25 * Scale) \div 2}],
     wcag : {ReorderContrasts},
     deficiency : {ReorderFilters}]

InitReport ==
    /\ lib \in ReportLibraries
    /\ colors \in SeqsUpTo(ReorderStrings, ReportLen)
    /\ pairs = <<>>
    /\ score = <<>>
    /\ simulations = <<>>
    /\ sortedPairs = <<>>
    /\ attentionList = <<>>
    /\ isDistinguishable = <<>>
    /\ distinctCheck = <<>>
    /\ paletteMetadata = Null
    /\ call = NoCall
    /\ env = Null
    /\ request = Null
    /\ prompts = <<>>
    /\ response = Null

SpecReport == InitReport /\ [][Next]_vars

----------------------------------------------------------------------------
(* app/api/generate/route.ts: the POST handler.  A request body carries
   description, dataType and colorCount (dataCharacteristics is left out, as
   the interface allows); values are JSON values with the semantics of
   JavaScript, a string being the sequence of its characters. *)

\* Longest colors array in an answer of the remote model
MaxAnswerLen == 4

JsUndefined == [type |-> "undefined"]

JsNull == [type |-> "null"]

NaN == [type |-> "NaN"]

JsonString(chars) == [type |-> "string", chars |-> chars]

JsonNumber(n) == [type |-> "number", value |-> n]

JsonArray(items) == [type |-> "array", items |-> items]

\* What JSON.parse and request.json() throw on a text that is not JSON
SyntaxError == [type |-> "SyntaxError"]

Repeat(ch, n) == [k \in 1..n |-> ch]

\* The characters joined into one text
RECURSIVE TextOf(_)
TextOf(chars) == IF chars = <<>> THEN "" ELSE chars[1] \o TextOf(Tail(chars))

WhiteSpace == {" "}

RECURSIVE TrimStart(_)
TrimStart(chars) ==
    IF chars # <<>> /\ chars[1] \in WhiteSpace THEN TrimStart(Tail(chars))
    ELSE chars

RECURSIVE TrimEnd(_)
TrimEnd(chars) ==
    IF chars # <<>> /\ chars[Len(chars)] \in WhiteSpace
    THEN TrimEnd(SubSeq(chars, 1, Len(chars) - 1))
    ELSE chars

\* String.prototype.trim
Trim(chars) == TrimEnd(TrimStart(chars))

DigitChars == <<"0", "1", "2", "3", "4", "5", "6", "7", "8", "9">>

DigitValue(ch) == (CHOOSE k \in 1..10 : DigitChars[k] = ch) - 1

IsDigit(ch) == \E k \in 1..10 : DigitChars[k] = ch

RECURSIVE DecimalValue(_)
DecimalValue(chars) ==
    IF chars = <<>> THEN 0
    ELSE 10 * DecimalValue(SubSeq(chars, 1, Len(chars) - 1))
             + DigitValue(chars[Len(chars)])

RECURSIVE Decimal(_)
Decimal(n) ==
    IF n < 10 THEN <<DigitChars[n + 1]>>
    ELSE Decimal(n \div 10) \o <<DigitChars[(n % 10) + 1]>>

\* ToNumber of undefined, null, a number or a string of digits and spaces
ToNumber(v) ==
    IF v.type = "number" THEN v
    ELSE IF v.type = "null" THEN JsonNumber(0)
    ELSE IF v.type = "string"
    THEN IF \A k \in 1..Len(Trim(v.chars)) : IsDigit(Trim(v.chars)[k])
         THEN JsonNumber(DecimalValue(Trim(v.chars)))
         ELSE NaN
    ELSE NaN

\* a < b where one side is a number: false when a side converts to NaN
LessThan(a, b) ==
    /\ ToNumber(a).type = "number"
    /\ ToNumber(b).type = "number"
    /\ ToNumber(a).value < ToNumber(b).value

\* a <= b where one side is a number: false when a side converts to NaN
LessOrEqual(a, b) ==
    /\ ToNumber(a).type = "number"
    /\ ToNumber(b).type = "number"
    /\ ToNumber(a).value <= ToNumber(b).value

\* !v
Falsy(v) ==
    \/ v.type \in {"undefined", "null", "NaN"}
    \/ v.type = "string" /\ v.chars = <<>>
    \/ v.type = "number" /\ v.value = 0

\* ToString of a value; inside Array.prototype.join null and undefined give
\* the empty string
RECURSIVE JsToString(_)
RECURSIVE JoinItems(_, _)
JsToString(v) ==
    IF v.type = "string" THEN v.chars
    ELSE IF v.type = "number" THEN Decimal(v.value)
    ELSE IF v.type = "null" THEN <<"n", "u", "l", "l">>
    ELSE IF v.type = "undefined"
    THEN <<"u", "n", "d", "e", "f", "i", "n", "e", "d">>
    ELSE JoinItems(v.items, <<",">>)

JoinItems(items, separator) ==
    IF items = <<>> THEN <<>>
    ELSE (IF items[1].type \in {"null", "undefined"} THEN <<>>
          ELSE JsToString(items[1]))
         \o (IF Len(items) = 1 THEN <<>>
             ELSE separator \o JoinItems(Tail(items), separator))

HexChars ==
    {"0", "1", "2", "3", "4", "5", "6", "7", "8", "9",
     "a", "b", "c", "d", "e", "f", "A", "B", "C", "D", "E", "F"}

\* /^#[0-9a-f]{6}$/i.test(color): test converts its argument to a string
hexRegexTest(color) ==
    /\ Len(JsToString(color)) = 7
    /\ JsToString(color)[1] = "#"
    /\ \A k \in 2..7 : JsToString(color)[k] \in HexChars

Categorical == JsonString(<<"c", "a", "t", "e", "g", "o", "r", "i", "c", "a", "l">>)

Sequential == JsonString(<<"s", "e", "q", "u", "e", "n", "t", "i", "a", "l">>)

Diverging == JsonString(<<"d", "i", "v", "e", "r", "g", "i", "n", "g">>)

\* NextResponse.json({ error }, { status })
ErrorResponse(error, status) == [status |-> status, json |-> [error |-> error]]

\* The response of the catch clause of the handler
CaughtResponse ==
    ErrorResponse("Failed to generate palette. Please try again.", 500)

\* Lines 38-78: the response when the request is turned down before the
\* remote model is called, Null when every check lets it pass
inputResponse(body, apiKey) ==
    IF body = SyntaxError THEN CaughtResponse
    ELSE IF Falsy(body.description)
    THEN ErrorResponse("Description must be at least 10 characters", 400)
    ELSE IF body.description.type # "string" THEN CaughtResponse
    ELSE IF Len(Trim(body.description.chars)) < 10
    THEN ErrorResponse("Description must be at least 10 characters", 400)
    ELSE IF Len(body.description.chars) > 500
    THEN ErrorResponse("Description must be less than 500 characters", 400)
    ELSE IF body.dataType \notin {Categorical, Sequential, Diverging}
    THEN ErrorResponse("Invalid data type", 400)
    ELSE IF LessThan(body.colorCount, JsonNumber(3))
            \/ LessThan(JsonNumber(9), body.colorCount)
    THEN ErrorResponse("Color count must be between 3 and 9", 400)
    ELSE IF Falsy(apiKey)
    THEN ErrorResponse("API key not configured. Please add GOOGLE_GENERATIVE_AI_API_KEY to .env.local", 500)
    ELSE Null

\* buildPrompt without dataCharacteristics: the values put into the text
buildPrompt(description, dataType, colorCount) ==
    [description |-> description, dataType |-> dataType,
     colorCount |-> colorCount]

\* Answers of the remote model: generateContent rejects, or the text of the
\* answer holds no {...}, or what it holds is not JSON, or it is an object
NoMatch == [type |-> "no match"]

Rejected == [type |-> "rejected"]

AIResponse(colorsField) == [type |-> "object", colors |-> colorsField]

\* Lines 86-131: the response once the remote model has answered
answerResponse(body, answer) ==
    IF answer = Rejected THEN CaughtResponse
    ELSE IF answer = NoMatch \/ answer = SyntaxError
    THEN ErrorResponse("Failed to parse AI response. Please try again.", 500)
    ELSE IF Falsy(answer.colors) \/ answer.colors.type # "array"
    THEN ErrorResponse("Invalid AI response format: missing colors array", 500)
    ELSE IF JsonNumber(Len(answer.colors.items)) # body.colorCount
    THEN ErrorResponse("AI returned "
                       \o TextOf(Decimal(Len(answer.colors.items)))
                       \o " colors instead of "
                       \o TextOf(JsToString(body.colorCount)), 500)
    ELSE IF SelectSeq(answer.colors.items, LAMBDA c : ~hexRegexTest(c)) # <<>>
    THEN ErrorResponse("Invalid color format: "
                       \o TextOf(JoinItems(
                              SelectSeq(answer.colors.items,
                                        LAMBDA c : ~hexRegexTest(c)),
                              <<",", " ">>)), 500)
    ELSE [status |-> 200, json |-> answer]

Descriptions ==
    {JsUndefined, JsonString(<<>>), JsonNumber(42),
     JsonString(Repeat("a", 9)),
     JsonString(<<" ">> \o Repeat("a", 9)),
     JsonString(Repeat("a", 10)),
     JsonString(Repeat("a", 500)),
     JsonString(Repeat("a", 501))}

DataTypeValues ==
    {Categorical, Sequential, Diverging, JsonString(<<"p", "i", "e">>),
     JsUndefined}

ColorCounts ==
    {JsUndefined, JsNull, JsonNumber(2), JsonNumber(3), JsonNumber(4),
     JsonNumber(10), JsonString(<<"3">>)}

Requests ==
    {SyntaxError}
    \cup [type : {"object"}, description : Descriptions,
          dataType : DataTypeValues, colorCount : ColorCounts]

ApiKeys == {JsUndefined, JsonString(<<>>), JsonString(<<"k", "e", "y">>)}

\* Entries of a colors array: two colors, five hex digits only, and an array
\* that holds one color
AnswerColors ==
    {JsonString(<<"#", "1", "b", "9", "e", "7", "7">>),
     JsonString(<<"#", "D", "9", "5", "F", "0", "2">>),
     JsonString(<<"#", "1", "2", "3", "4", "5">>),
     JsonArray(<<JsonString(<<"#", "7", "5", "7", "0", "b", "3">>)>>)}

Answers ==
    {Rejected, NoMatch, SyntaxError, AIResponse(JsUndefined),
     AIResponse(JsonString(<<"#", "1", "b", "9", "e", "7", "7">>))}
    \cup {AIResponse(JsonArray(items)) :
              items \in SeqsUpTo(AnswerColors, MaxAnswerLen)}

InitGenerate ==
    /\ lib = <<>>
    /\ colors = <<>>
    /\ pairs = <<>>
    /\ score = <<>>
    /\ simulations = <<>>
    /\ sortedPairs = <<>>
    /\ attentionList = <<>>
    /\ isDistinguishable = <<>>
    /\ distinctCheck = <<>>
    /\ paletteMetadata = Null
    /\ call = NoCall
    /\ env \in ApiKeys
    /\ request \in Requests
    /\ prompts = <<>>
    /\ response = Null

\* The handler up to its response to a request that is turned down, or up
\* to the await of model.generateContent(prompt)
POST ==
    /\ prompts = <<>>
    /\ response = Null
    /\ IF inputResponse(request, env) # Null
       THEN /\ response' = inputResponse(request, env)
            /\ prompts' = prompts
       ELSE /\ prompts' = <<buildPrompt(request.description, request.dataType,
                                        request.colorCount)>>
            /\ response' = response
    /\ UNCHANGED <<env, request, lib, colors, pairs, score, simulations,
                   sortedPairs, attentionList, isDistinguishable,
                   distinctCheck, paletteMetadata, call>>

\* The rest of the handler, from the answer of the remote model
generateContent(answer) ==
    /\ prompts # <<>>
    /\ response = Null
    /\ response' = answerResponse(request, answer)
    /\ UNCHANGED <<env, request, prompts, lib, colors, pairs, score,
                   simulations, sortedPairs, attentionList, isDistinguishable,
                   distinctCheck, paletteMetadata, call>>

NextGenerate ==
    \/ POST
    \/ \E answer \in Answers : generateContent(answer)

SpecGenerate == InitGenerate /\ [][NextGenerate]_vars

----------------------------------------------------------------------------
(* Properties of the engine (specification Spec) *)

\* Number of deficiency types declared safe
SafeCount == Cardinality({t \in CVDTypes : score.cvdSafe[t]})

\* C1: for every palette, calculateAccessibilityScore returns an overallScore
\* that is an integer with 0 <= overallScore <= 100.
C1_ScoreWithinRange == Analysed => score.overallScore \in 0..100

\* C2: for a palette of N colors, analyzePalettePairs returns exactly
\* N*(N-1)/2 entries, one for each index pair i < j, in lexicographic order
\* (i ascending, then j ascending), each with index1 = i, index2 = j,
\* color1 = colors[i] and color2 = colors[j].
C2_PairsEnumerated ==
    Analysed =>
        LET N == Len(colors) IN
        /\ 2 * Len(pairs) = N * (N - 1)
        /\ \A k \in 1..Len(pairs) :
              /\ 0 <= pairs[k].index1
              /\ pairs[k].index1 < pairs[k].index2
              /\ pairs[k].index2 < N
              /\ pairs[k].color1 = colors[pairs[k].index1 + 1]
              /\ pairs[k].color2 = colors[pairs[k].index2 + 1]
        /\ \A k \in 1..(Len(pairs) - 1) :
              \/ pairs[k].index1 < pairs[k + 1].index1
              \/ /\ pairs[k].index1 = pairs[k + 1].index1
                 /\ pairs[k].index2 < pairs[k + 1].index2
        /\ \A i, j \in 0..(N - 1) :
              i < j => \E k \in 1..Len(pairs) :
                          pairs[k].index1 = i /\ pairs[k].index2 = j

C2_ThreeColorsThreePairs ==
    /\ Analysed
    /\ Len(colors) = 3
    /\ Len(pairs) = 3
    /\ <<pairs[1].index1, pairs[1].index2>> = <<0, 1>>
    /\ <<pairs[2].index1, pairs[2].index2>> = <<0, 2>>
    /\ <<pairs[3].index1, pairs[3].index2>> = <<1, 2>>

\* C3: for a palette of size 0 or 1, calculateAccessibilityScore returns
\* overallScore 100, every sub-metric 0, no pairs, and all three cvdSafe
\* flags true, whatever the single color string is.
C3_DegeneratePalette ==
    (Analysed /\ Len(colors) <= 1) =>
        /\ score.overallScore = 100
        /\ score.minDeltaE = 0
        /\ RatEq(score.avgDeltaE, Rat(0, 1))
        /\ score.minContrast = 0
        /\ RatEq(score.avgContrast, Rat(0, 1))
        /\ score.problematicPairs = 0
        /\ score.totalPairs = 0
        /\ \A t \in CVDTypes : score.cvdSafe[t]

C3_SingleUnparseableColor ==
    /\ Analysed
    /\ colors = <<"not-a-color">>
    /\ score.overallScore = 100

\* C4: for every palette with at least one pair, overallScore is
\* round(min(40, (minDeltaE/10)*40) + min(30, ((avgContrast-1)/3.5)*30) + 10*k),
\* k the number of deficiency types whose cvdSafe flag is true.  With
\* D = 7 * avgContrast.den * Scale the three terms are whole multiples of 1/D,
\* and x = round(T) says x - 1/2 <= T < x + 1/2.
C4_OverallScoreFormula ==
    (Analysed /\ Len(pairs) >= 1) =>
        LET a == score.avgContrast.num
            b == score.avgContrast.den
            D == 7 * b * Scale
            fromDeltaE == IF 4 * score.minDeltaE * 7 * b < 40 * D
                          THEN 4 * score.minDeltaE * 7 * b ELSE 40 * D
            fromContrast == IF 60 * (a - b * Scale) < 30 * D
                            THEN 60 * (a - b * Scale) ELSE 30 * D
            T == fromDeltaE + fromContrast + 10 * SafeCount * D
        IN  /\ (2 * score.overallScore - 1) * D <= 2 * T
            /\ 2 * T < (2 * score.overallScore + 1) * D

C4_FractionalTermsTwoSafe ==
    /\ Analysed
    /\ Len(pairs) >= 1
    /\ SafeCount = 2
    /\ score.minDeltaE = 3 * Scale
    /\ RatEq(score.avgContrast, Rat(3 * Scale, 1))
    /\ score.overallScore = 49

\* C5: for every palette with at least one pair and each deficiency type t,
\* cvdSafe[t] is true iff no pair of the simulated palette has deltaE < 3; a
\* simulated pair with deltaE exactly 3 does not make the type unsafe.
C5_CvdSafeIffNoSimulatedPairBelow3 ==
    (Analysed /\ Len(pairs) >= 1) =>
        \A t \in CVDTypes :
            score.cvdSafe[t] <=>
                \A i, j \in 1..Len(colors) :
                    i < j => getDeltaE(simulateCVD(colors[i], t),
                                       simulateCVD(colors[j], t)) >= 3 * Scale

C5_SimulatedPairExactly3IsSafe ==
    /\ Analysed
    /\ Len(colors) = 2
    /\ \E t, u \in CVDTypes :
          /\ getDeltaE(simulateCVD(colors[1], t), simulateCVD(colors[2], t)) = 3 * Scale
          /\ score.cvdSafe[t]
          /\ ~score.cvdSafe[u]

\* C6: for every palette with at least one pair, minDeltaE and minContrast
\* are the minimum, avgDeltaE and avgContrast the arithmetic mean, of deltaE
\* and contrastRatio over the entries of analyzePalettePairs on the original
\* palette, totalPairs is the number of entries, and problematicPairs the
\* number of entries with deltaE < 5 (deltaE exactly 5 is not counted).
RECURSIVE SumDeltaE(_)
SumDeltaE(n) == IF n = 0 THEN 0 ELSE pairs[n].deltaE + SumDeltaE(n - 1)

RECURSIVE SumContrast(_)
SumContrast(n) == IF n = 0 THEN 0 ELSE pairs[n].contrastRatio + SumContrast(n - 1)

C6_AggregatesOverPairs ==
    (Analysed /\ Len(pairs) >= 1) =>
        LET K == 1..Len(pairs) IN
        /\ \E k \in K : pairs[k].deltaE = score.minDeltaE
        /\ \A k \in K : pairs[k].deltaE >= score.minDeltaE
        /\ \E k \in K : pairs[k].contrastRatio = score.minContrast
        /\ \A k \in K : pairs[k].contrastRatio >= score.minContrast
        /\ RatEq(score.avgDeltaE, Rat(SumDeltaE(Len(pairs)), Len(pairs)))
        /\ RatEq(score.avgContrast, Rat(SumContrast(Len(pairs)), Len(pairs)))
        /\ score.totalPairs = Len(pairs)
        /\ score.problematicPairs =
              Cardinality({k \in K : pairs[k].deltaE < 5 * Scale})

C6_PairAtExactly5NotCounted ==
    /\ Analysed
    /\ Len(pairs) = 3
    /\ \E k \in 1..3 : pairs[k].deltaE = 5 * Scale
    /\ score.problematicPairs = 1
    /\ score.minDeltaE = 0
    /\ RatLess(Rat(score.minDeltaE, 1), score.avgDeltaE)

----------------------------------------------------------------------------
(* Properties of the single functions (specification SpecFn) *)

\* C7: getDistinguishabilityLevel maps every deltaE >= 0 to exactly one
\* class: 'excellent' when deltaE >= 10, 'good' when 5 <= deltaE < 10, 'poor'
\* when 2 <= deltaE < 5, 'indistinguishable' when deltaE < 2; the boundary
\* values 2, 5 and 10 belong to the upper class.
C7_DistinguishabilityClasses ==
    call.fn = "getDistinguishabilityLevel" =>
        LET deltaE == call.args[1] IN
        /\ call.ret \in {"excellent", "good", "poor", "indistinguishable"}
        /\ call.ret = "excellent" <=> deltaE >= 10 * Scale
        /\ call.ret = "good" <=> (5 * Scale <= deltaE /\ deltaE < 10 * Scale)
        /\ call.ret = "poor" <=> (2 * Scale <= deltaE /\ deltaE < 5 * Scale)
        /\ call.ret = "indistinguishable" <=> deltaE < 2 * Scale

C7_BoundaryTwoIsPoor ==
    /\ call.fn = "getDistinguishabilityLevel"
    /\ call.args[1] = 2 * Scale
    /\ call.ret = "poor"

\* C8: getWCAGLevel(ratio, isLargeText) returns 'AAA' when ratio >= 7, 'AA'
\* when 4.5 <= ratio < 7 and 'Fail' otherwise for normal text (isLargeText
\* false or omitted), and 'AAA' when ratio >= 4.5, 'AA' when 3 <= ratio < 4.5
\* and 'Fail' otherwise for large text.
C8_WCAGLevels ==
    call.fn = "getWCAGLevel" =>
        LET ratio == call.args[1]
            large == Len(call.args) = 2 /\ call.args[2]
        IN  IF large
            THEN call.ret = (IF 10 * ratio >= 45 * Scale THEN "AAA"
                             ELSE IF ratio >= 3 * Scale THEN "AA" ELSE "Fail")
            ELSE call.ret = (IF ratio >= 7 * Scale THEN "AAA"
                             ELSE IF 10 * ratio >= 45 * Scale THEN "AA" ELSE "Fail")

C8_OmittedFlagIsNormalText ==
    /\ call.fn = "getWCAGLevel"
    /\ Len(call.args) = 1
    /\ 10 * call.args[1] = 45 * Scale
    /\ call.ret = "AA"

\* C9: when at least one of the two color strings cannot be parsed, getDeltaE
\* returns 0 and getContrastRatio returns 0, and getLuminance of an
\* unparseable string returns 0, whichever argument is the unparseable one.
C9_UnparseableGivesZero ==
    /\ (/\ call.fn \in {"getDeltaE", "getContrastRatio"}
        /\ \E k \in 1..2 : call.args[k] \in BadStrings) => call.ret = 0
    /\ (call.fn = "getLuminance" /\ call.args[1] \in BadStrings) => call.ret = 0

C9_SecondArgumentUnparseable ==
    /\ call.fn = "getContrastRatio"
    /\ call.args[1] \in HexStrings
    /\ call.args[2] \in BadStrings
    /\ call.ret = 0

\* C10: simulateCVD(color, type) returns the input string itself, unchanged,
\* whenever the color cannot be parsed and whenever the deficiency filter
\* yields no color, for each of the three deficiency types.
C10_SimulateFallsBackToInput ==
    (/\ call.fn = "simulateCVD"
     /\ \/ call.args[1] \in BadStrings
        \/ lib.deficiency[call.args[2]][parse(call.args[1])] = Undefined)
    => call.ret = call.args[1]

C10_FilterYieldsNoColor ==
    /\ call.fn = "simulateCVD"
    /\ call.args[1] = "#1B9E77"
    /\ lib.deficiency[call.args[2]][parse(call.args[1])] = Undefined
    /\ call.ret = "#1B9E77"

----------------------------------------------------------------------------
(* Properties of the palette functions (specification Spec) *)

\* C11: simulatePaletteCVD(colors, type) returns a sequence of the same length
\* as colors whose k-th element is simulateCVD(colors[k], type): the order is
\* kept and equal colors are neither merged nor removed.
C11_SimulationIsElementwise ==
    Analysed =>
        \A type \in CVDTypes :
            /\ Len(simulations[type]) = Len(colors)
            /\ \A k \in 1..Len(colors) :
                   simulations[type][k] = simulateCVD(colors[k], type)

\* A palette of three colors holding one color twice, whose simulation
\* changes the colors and still has three elements, the two equal ones alike
C11_DuplicateKeptInPlace ==
    /\ Analysed
    /\ Len(colors) = 3
    /\ colors[1] = colors[3]
    /\ colors[1] # colors[2]
    /\ \E type \in CVDTypes :
           /\ Len(simulations[type]) = 3
           /\ simulations[type][1] # colors[1]
           /\ simulations[type][3] = simulations[type][1]

----------------------------------------------------------------------------
(* Properties of the comparisons (specification SpecFn) *)

\* A comparison of a color string with itself
SelfComparison(fn) ==
    /\ call.fn = fn
    /\ call.args[1] = call.args[2]

\* C12 as stated: for every color string a, getDeltaE(a, a) = 0 and
\* getContrastRatio(a, a) = 1.
C12_SelfComparison ==
    /\ SelfComparison("getDeltaE") => call.ret = 0
    /\ SelfComparison("getContrastRatio") => call.ret = Scale

\* C12 amended: for every color string a, getDeltaE(a, a) = 0; and
\* getContrastRatio(a, a) = 1 when a parses, 0 when a does not parse.
C12_SelfComparisonOfParseable ==
    /\ SelfComparison("getDeltaE") => call.ret = 0
    /\ SelfComparison("getContrastRatio") =>
           call.ret = IF parse(call.args[1]) # Undefined THEN Scale ELSE 0

\* A parseable color compared with itself: contrast ratio 1
C12_ParseableAgainstItself ==
    /\ SelfComparison("getContrastRatio")
    /\ call.args[1] \in HexStrings
    /\ call.ret = Scale

\* C13: getDeltaE and getContrastRatio are symmetric in their arguments:
\* getDeltaE(a, b) = getDeltaE(b, a) and getContrastRatio(a, b) =
\* getContrastRatio(b, a), also when one or both strings do not parse.
C13_Symmetric ==
    /\ call.fn = "getDeltaE" =>
           call.ret = getDeltaE(call.args[2], call.args[1])
    /\ call.fn = "getContrastRatio" =>
           call.ret = getContrastRatio(call.args[2], call.args[1])

\* A parseable color compared with an unparseable one, in that order: the
\* result is the one of the opposite order
C13_ParseableThenUnparseable ==
    /\ call.fn = "getContrastRatio"
    /\ call.args[1] \in HexStrings
    /\ call.args[2] \in BadStrings
    /\ call.ret = getContrastRatio(call.args[2], call.args[1])

----------------------------------------------------------------------------
(* Properties of the color descriptions (specification SpecFn) *)

\* C14: getTextColor(background) is '#000000' exactly when
\* getLuminance(background) > 0.179 and '#ffffff' otherwise (a luminance of
\* exactly 0.179 gives white), so the result is always one of the two; for
\* '#ffffff' it is '#000000' and for '#000000' it is '#ffffff'.
C14_TextColorByLuminance ==
    call.fn = "getTextColor" =>
        /\ call.ret \in {"#000000", "#ffffff"}
        /\ call.ret = "#000000" <=> getLuminance(call.args[1]) > 17900000
        /\ call.args[1] = "#ffffff" => call.ret = "#000000"
        /\ call.args[1] = "#000000" => call.ret = "#ffffff"

\* The gray just below the threshold (luminance 0.1779) gets white text
C14_GrayBelowThresholdGetsWhite ==
    /\ call.fn = "getTextColor"
    /\ call.args[1] = "#757575"
    /\ getLuminance(call.args[1]) < 17900000
    /\ call.ret = "#ffffff"

----------------------------------------------------------------------------
(* Properties of the pair records (specification Spec) *)

\* Both colors of a pair record parse
BothParse(p) == parse(p.color1) # Undefined /\ parse(p.color2) # Undefined

\* C15 as stated: every entry of analyzePalettePairs, for every palette, has
\* deltaE >= 0 and contrastRatio >= 1.
C15_DeltaENonNegativeContrastAtLeastOne ==
    Analysed =>
        \A k \in 1..Len(pairs) :
            /\ pairs[k].deltaE >= 0
            /\ pairs[k].contrastRatio >= Scale

\* C15 amended: every entry of analyzePalettePairs has deltaE >= 0; its
\* contrastRatio is >= 1 when both of its colors parse and is 0 when one of
\* them does not parse.
C15_ContrastAtLeastOneWhenBothParse ==
    Analysed =>
        \A k \in 1..Len(pairs) :
            /\ pairs[k].deltaE >= 0
            /\ BothParse(pairs[k]) => pairs[k].contrastRatio >= Scale
            /\ ~BothParse(pairs[k]) => pairs[k].contrastRatio = 0

\* A palette with a pair of parseable colors at contrast exactly 1 and a
\* pair with an unparseable color at contrast 0
C15_BothKindsOfPair ==
    /\ Analysed
    /\ \E k \in 1..Len(pairs) :
           BothParse(pairs[k]) /\ pairs[k].contrastRatio = Scale
    /\ \E k \in 1..Len(pairs) :
           ~BothParse(pairs[k]) /\ pairs[k].contrastRatio = 0

\* C16: in every entry of analyzePalettePairs, wcagLevel is
\* getWCAGLevel(contrastRatio) under the normal-text thresholds (AAA from 7,
\* AA from 4.5, never the large-text ones) and distinguishability is
\* getDistinguishabilityLevel(deltaE), for the entry's own two numbers.
C16_LevelsFromOwnMetrics ==
    Analysed =>
        \A k \in 1..Len(pairs) :
            /\ pairs[k].wcagLevel = getWCAGLevel(pairs[k].contrastRatio, FALSE)
            /\ pairs[k].wcagLevel =
                   IF pairs[k].contrastRatio >= 7 * Scale THEN "AAA"
                   ELSE IF 2 * pairs[k].contrastRatio >= 9 * Scale THEN "AA"
                   ELSE "Fail"
            /\ pairs[k].distinguishability =
                   getDistinguishabilityLevel(pairs[k].deltaE)

\* A pair at contrast 4.5 (AAA for large text) is AA, and at deltaE 5 good
C16_ContrastFourAndAHalfIsAA ==
    /\ Analysed
    /\ \E k \in 1..Len(pairs) :
           /\ 2 * pairs[k].contrastRatio = 9 * Scale
           /\ pairs[k].wcagLevel = "AA"
           /\ pairs[k].deltaE = 5 * Scale
           /\ pairs[k].distinguishability = "good"

\* C17: analyzePalettePairs, simulatePaletteCVD and
\* calculateAccessibilityScore leave the palette given to them unchanged:
\* after the calls it has the same length and the same string at every index
\* as when it was passed, the three simulations inside the score included.
C17_InputPaletteUnchanged ==
    Analysed =>
        /\ Len(colors) = Len(call.args[1])
        /\ \A k \in 1..Len(colors) : colors[k] = call.args[1][k]

\* A palette of three colors after the run, every simulation of which
\* differs from it
C17_SimulationsDifferFromInput ==
    /\ Analysed
    /\ Len(colors) = 3
    /\ colors = call.args[1]
    /\ \A type \in CVDTypes : simulations[type] # colors

\* x in lowercase, for a hex string x
LowerHex(x) ==
    IF \E h \in DOMAIN UpperHex : UpperHex[h] = x
    THEN CHOOSE h \in DOMAIN UpperHex : UpperHex[h] = x
    ELSE x

\* C18: for every valid 6-digit hex color x, in any letter case,
\* getColorInfo(x) is not null, its hex field is x in lowercase, and its rgb
\* field holds the three integer channel values 0..255 that x encodes.
C18_ColorInfoOfHex ==
    (call.fn = "getColorInfo" /\ call.args[1] \in HexStrings) =>
        /\ call.ret # Null
        /\ call.ret.hex = LowerHex(call.args[1])
        /\ call.ret.rgb \in [r : 0..255, g : 0..255, b : 0..255]
        /\ "#" \o Hex2(call.ret.rgb.r) \o Hex2(call.ret.rgb.g)
               \o Hex2(call.ret.rgb.b) = LowerHex(call.args[1])

\* The hex in capitals: lowercase hex field and the channels 27, 158, 119
C18_CapitalsGiveLowercaseHex ==
    /\ call.fn = "getColorInfo"
    /\ call.args[1] = "#1B9E77"
    /\ call.ret # Null
    /\ call.ret.hex = "#1b9e77"
    /\ call.ret.rgb = [r |-> 27, g |-> 158, b |-> 119]

----------------------------------------------------------------------------
(* Properties of palettes with unparseable entries (specification Spec) *)

\* Some entry of the palette does not parse
HasUnparseable == \E k \in 1..Len(colors) : parse(colors[k]) = Undefined

\* C19: for every palette of at least 2 colors with an unparseable entry,
\* calculateAccessibilityScore returns a score with minDeltaE = 0 and
\* minContrast = 0, and every pair that includes the unparseable entry has
\* deltaE = 0, contrastRatio = 0, wcagLevel 'Fail' and distinguishability
\* 'indistinguishable'.
C19_UnparseableEntryDegrades ==
    (Analysed /\ Len(colors) >= 2 /\ HasUnparseable) =>
        /\ score.overallScore \in Int
        /\ score.totalPairs = Len(pairs)
        /\ score.minDeltaE = 0
        /\ score.minContrast = 0
        /\ \A k \in 1..Len(pairs) :
               ~BothParse(pairs[k]) =>
                   /\ pairs[k].deltaE = 0
                   /\ pairs[k].contrastRatio = 0
                   /\ pairs[k].wcagLevel = "Fail"
                   /\ pairs[k].distinguishability = "indistinguishable"

\* Two parseable colors that differ and one unparseable entry: the minima
\* are 0 although the parseable pair is apart
C19_OneBadEntryAmongThree ==
    /\ Analysed
    /\ Len(colors) = 3
    /\ HasUnparseable
    /\ \E k \in 1..Len(pairs) :
           /\ BothParse(pairs[k])
           /\ pairs[k].deltaE > 0
           /\ pairs[k].contrastRatio > Scale
    /\ score.minDeltaE = 0
    /\ score.minContrast = 0

----------------------------------------------------------------------------
(* Properties of the report (specification Spec) *)

\* The elements of a sequence
Range(xs) == {xs[k] : k \in 1..Len(xs)}

\* C20: for every non-empty palette, the rows of the report's table of all
\* pairs are a permutation of analyzePalettePairs(palette) in non-decreasing
\* deltaE order; the sort works on a copy, so the analysed sequence keeps its
\* lexicographic order; and every item of the list 'Colors That Need
\* Attention' has deltaE < 10.
C20_TableSortedAttentionBelowTen ==
    (Analysed /\ Len(colors) >= 1) =>
        /\ Len(sortedPairs) = Len(pairs)
        /\ Range(sortedPairs) = Range(pairs)
        /\ Cardinality(Range(pairs)) = Len(pairs)
        /\ \A k \in 1..(Len(sortedPairs) - 1) :
               sortedPairs[k].deltaE <= sortedPairs[k + 1].deltaE
        /\ \A k \in 1..(Len(pairs) - 1) :
               \/ pairs[k].index1 < pairs[k + 1].index1
               \/ /\ pairs[k].index1 = pairs[k + 1].index1
                  /\ pairs[k].index2 < pairs[k + 1].index2
        /\ \A k \in 1..Len(attentionList) :
               attentionList[k].deltaE < 10 * Scale

\* Three pairs that the sort reorders, one of them at deltaE >= 10 and so
\* left out of the attention list
C20_SortReordersAndListOmits ==
    /\ Analysed
    /\ Len(pairs) = 3
    /\ sortedPairs # pairs
    /\ pairs[1].deltaE > pairs[2].deltaE
    /\ sortedPairs[3].deltaE >= 10 * Scale
    /\ Len(attentionList) = 2

----------------------------------------------------------------------------
(* Properties of the simulation panels (specification Spec) *)

\* C21: for every non-empty palette and each deficiency type t, the
\* CVDSimulation badge is 'Warning' exactly when some pair of the simulated
\* palette has deltaE < 3 and 'Safe' otherwise, and it is 'Safe' if and only
\* if calculateAccessibilityScore(palette).cvdSafe[t] is true, one-color
\* palettes included.
C21_BadgeAgreesWithScore ==
    (Analysed /\ Len(colors) >= 1) =>
        \A t \in CVDTypes :
            LET simulatedPairs == analyzePalettePairs(simulations[t]) IN
            /\ Badge(isDistinguishable[t]) \in {"Safe", "Warning"}
            /\ Badge(isDistinguishable[t]) = "Warning" <=>
                   \E k \in 1..Len(simulatedPairs) :
                       simulatedPairs[k].deltaE < 3 * Scale
            /\ Badge(isDistinguishable[t]) = "Safe" <=> score.cvdSafe[t]

\* A palette with one type's badge 'Safe' at a simulated pair of deltaE
\* exactly 3 and another type's badge 'Warning'
C21_SafeAtThreeAndWarning ==
    /\ Analysed
    /\ Len(colors) >= 2
    /\ \E t \in CVDTypes :
           /\ Badge(isDistinguishable[t]) = "Safe"
           /\ score.cvdSafe[t]
           /\ \E k \in 1..Len(analyzePalettePairs(simulations[t])) :
                  analyzePalettePairs(simulations[t])[k].deltaE = 3 * Scale
    /\ \E t \in CVDTypes :
           /\ Badge(isDistinguishable[t]) = "Warning"
           /\ ~score.cvdSafe[t]

----------------------------------------------------------------------------
(* Properties of the page (specification SpecHome) *)

\* C22: starting from the empty palette, after any sequence of palette
\* generations and single-swatch edits, an edit of swatch i (0 <= i < current
\* length) replaces only entry i: the palette keeps its length and every
\* other index keeps its color; a palette generation replaces the whole
\* palette by the generated one.
C22_EditReplacesOneEntry ==
    /\ call.fn = "handleColorChange" =>
           LET before == call.args[1]
               i == call.args[2]
           IN  /\ Len(colors) = Len(before)
               /\ colors[i + 1] = call.args[3]
               /\ \A k \in 1..Len(before) : k # i + 1 => colors[k] = before[k]
    /\ call.fn \in {"handlePaletteGenerated", "handleAIPaletteGenerated"} =>
           colors = call.args[1]

\* The middle swatch of three has just been given another color
C22_MiddleSwatchEdited ==
    /\ call.fn = "handleColorChange"
    /\ Len(call.args[1]) = 3
    /\ call.args[2] = 1
    /\ call.args[3] # call.args[1][2]
    /\ colors[2] = call.args[3]
    /\ colors[1] = call.args[1][1]
    /\ colors[3] = call.args[1][3]

----------------------------------------------------------------------------
(* Properties of the score (specification Spec) *)

\* The same color string at two different indices of the palette
HasDuplicate ==
    \E h, k \in 1..Len(colors) : h # k /\ colors[h] = colors[k]

\* C23: for every palette of at least two colors that holds the same color
\* string at two different indices, or an unparseable entry,
\* calculateAccessibilityScore declares all three deficiency types unsafe,
\* reports problematicPairs >= 1 and returns overallScore <= 30.
C23_DuplicateOrUnparseableScoresLow ==
    (Analysed /\ Len(colors) >= 2 /\ (HasDuplicate \/ HasUnparseable)) =>
        /\ \A t \in CVDTypes : ~score.cvdSafe[t]
        /\ score.problematicPairs >= 1
        /\ score.overallScore <= 30

\* A palette of parseable colors with a duplicate that scores exactly 30:
\* only the contrast term is left, at its cap
C23_DuplicateAtContrastCap ==
    /\ Analysed
    /\ HasDuplicate
    /\ ~HasUnparseable
    /\ \A t \in CVDTypes : ~score.cvdSafe[t]
    /\ score.overallScore = 30

\* C24: for every palette in which every pair has deltaE >= 0 and
\* contrastRatio >= 1 (all colors parse), overallScore lies between 10 * k and
\* 70 + 10 * k inclusive, k being the number of deficiency types declared
\* safe; hence it is within 0..100, and at most 70 when no type is safe.
C24_ScoreBoundsByCvdSafeCount ==
    (Analysed /\ \A k \in 1..Len(pairs) :
                   pairs[k].deltaE >= 0 /\ pairs[k].contrastRatio >= Scale) =>
        /\ 10 * SafeCount <= score.overallScore
        /\ score.overallScore <= 70 + 10 * SafeCount
        /\ score.overallScore \in 0..100
        /\ SafeCount = 0 => score.overallScore <= 70

\* Parseable colors, no type safe, both other terms at their caps: 70
C24_SeventyWithNoTypeSafe ==
    /\ Analysed
    /\ Len(colors) >= 2
    /\ ~HasUnparseable
    /\ SafeCount = 0
    /\ score.minDeltaE >= 10 * Scale
    /\ score.overallScore = 70

\* C25: for every palette of N colors, problematicPairs is the number of
\* analyzePalettePairs entries whose distinguishability is 'poor' or
\* 'indistinguishable', and 0 <= problematicPairs <= totalPairs = N*(N-1)/2.
C25_ProblematicPairsByClass ==
    Analysed =>
        /\ score.problematicPairs =
               Cardinality({k \in 1..Len(pairs) :
                   pairs[k].distinguishability \in {"poor", "indistinguishable"}})
        /\ 0 <= score.problematicPairs
        /\ score.problematicPairs <= score.totalPairs
        /\ 2 * score.totalPairs = Len(colors) * (Len(colors) - 1)

\* Three pairs, one indistinguishable and two poor: all three are counted
C25_PoorAndIndistinguishableCounted ==
    /\ Analysed
    /\ score.totalPairs = 3
    /\ \E k \in 1..3 : pairs[k].distinguishability = "indistinguishable"
    /\ \E k \in 1..3 : pairs[k].distinguishability = "poor"
    /\ score.problematicPairs = 3

----------------------------------------------------------------------------
(* Properties of reordered palettes (specification SpecReorder) *)

\* The palette has been scored, and so has a reordering of it
Reordered == call.fn = "calculateAccessibilityScore" /\ score # <<>>

\* |a - b|
Distance(a, b) == IF a < b THEN b - a ELSE a - b

\* Two floating point sums of the same n terms in different orders: each of
\* the n - 1 additions that matter rounds by at most half the spacing of
\* the numbers around the sum
SumsAgreeUpToRounding(a, b, n) ==
    Distance(a, b) <= (n - 1) * Quantum(IF a < b THEN b ELSE a, 1)

\* C26 as stated: for every palette and every permutation of it,
\* calculateAccessibilityScore returns the same overallScore, minDeltaE,
\* avgDeltaE, minContrast, avgContrast, problematicPairs, totalPairs and
\* cvdSafe flags.
C26_ScoreUnchangedByReordering ==
    Reordered =>
        /\ call.ret.overallScore = score.overallScore
        /\ call.ret.minDeltaE = score.minDeltaE
        /\ RatEq(call.ret.avgDeltaE, score.avgDeltaE)
        /\ call.ret.minContrast = score.minContrast
        /\ RatEq(call.ret.avgContrast, score.avgContrast)
        /\ call.ret.problematicPairs = score.problematicPairs
        /\ call.ret.totalPairs = score.totalPairs
        /\ call.ret.cvdSafe = score.cvdSafe

\* C26 amended: for every palette and every permutation of it,
\* calculateAccessibilityScore returns the same minDeltaE, minContrast,
\* problematicPairs, totalPairs and cvdSafe flags; avgDeltaE and avgContrast
\* are floating point sums taken in the order of the pairs, so they agree
\* only up to the rounding of the additions, and are equal when no addition
\* rounds; overallScore is the same whenever avgContrast is.
C26_ScoreUnchangedUpToRoundingOfSums ==
    Reordered =>
        /\ call.ret.minDeltaE = score.minDeltaE
        /\ call.ret.minContrast = score.minContrast
        /\ call.ret.problematicPairs = score.problematicPairs
        /\ call.ret.totalPairs = score.totalPairs
        /\ call.ret.cvdSafe = score.cvdSafe
        /\ score.totalPairs > 0 =>
               /\ SumsAgreeUpToRounding(call.ret.avgDeltaE.num,
                                        score.avgDeltaE.num, score.totalPairs)
               /\ SumsAgreeUpToRounding(call.ret.avgContrast.num,
                                        score.avgContrast.num, score.totalPairs)
        /\ RatEq(call.ret.avgContrast, score.avgContrast) =>
               call.ret.overallScore = score.overallScore

\* Three different colors in another order: the same least difference, but
\* a mean difference that is not the same number
C26_MeanDiffersInLastPlace ==
    /\ Reordered
    /\ Len(colors) = 3
    /\ call.args[1] # colors
    /\ call.ret.minDeltaE = score.minDeltaE
    /\ call.ret.overallScore = score.overallScore
    /\ ~RatEq(call.ret.avgDeltaE, score.avgDeltaE)

----------------------------------------------------------------------------
(* Order of the WCAG levels (specification SpecFn) *)

\* Fail < AA < AAA
LevelRank(level) == IF level = "Fail" THEN 0 ELSE IF level = "AA" THEN 1 ELSE 2

\* isLargeText of a call of getWCAGLevel (false when left out)
IsLargeTextOf(args) == IF Len(args) >= 2 THEN args[2] ELSE FALSE

\* C27: under the order Fail < AA < AAA the level is non-decreasing in the
\* contrast ratio for both text sizes, and for every ratio the level for
\* large text is at least the level for normal text.
C27_LevelMonotoneAndLargeAtLeastNormal ==
    call.fn = "getWCAGLevel" =>
        /\ \A r \in RatioSamples :
               r >= call.args[1] =>
                   LevelRank(getWCAGLevel(r, IsLargeTextOf(call.args)))
                       >= LevelRank(call.ret)
        /\ \A r \in RatioSamples :
               r <= call.args[1] =>
                   LevelRank(getWCAGLevel(r, IsLargeTextOf(call.args)))
                       <= LevelRank(call.ret)
        /\ IsLargeTextOf(call.args) =>
               LevelRank(call.ret)
                   >= LevelRank(getWCAGLevel(call.args[1], FALSE))
        /\ ~IsLargeTextOf(call.args) =>
               LevelRank(call.ret)
                   <= LevelRank(getWCAGLevel(call.args[1], TRUE))

\* A ratio of exactly 3 is AA for large text and fails for normal text
C27_ThreeIsAAOnlyForLargeText ==
    /\ call.fn = "getWCAGLevel"
    /\ call.args = <<3 * Scale, TRUE>>
    /\ call.ret = "AA"
    /\ getWCAGLevel(3 * Scale, FALSE) = "Fail"

----------------------------------------------------------------------------
(* The preview panels against the score (specification Spec) *)

\* C28: whenever the preview panel of a deficiency type is marked 'Clear'
\* (no pair of the simulated palette has deltaE < 5), cvdSafe of that type
\* is true in the score of the palette.
C28_ClearPanelImpliesCvdSafe ==
    Analysed =>
        \A type \in CVDTypes :
            distinctCheck[type].isDistinct => score.cvdSafe[type]

\* Two colors: the panel of one deficiency type is clear and the type is
\* safe, the panel of another type asks for a check and the type is unsafe
C28_ClearPanelBesideUnsafeType ==
    /\ Analysed
    /\ Len(call.args[1]) = 2
    /\ \E type \in CVDTypes :
           distinctCheck[type].isDistinct /\ score.cvdSafe[type]
    /\ \E type \in CVDTypes :
           ~distinctCheck[type].isDistinct /\ ~score.cvdSafe[type]

----------------------------------------------------------------------------
(* The list of colors that need attention (specification SpecReport) *)

\* (index1, index2) of p before (index1, index2) of q
LexicographicallyBefore(p, q) ==
    \/ p.index1 < q.index1
    \/ p.index1 = q.index1 /\ p.index2 < q.index2

\* C29: the list of colors that need attention holds at most 5 pairs, the
\* lowest-deltaE pairs among those with deltaE < 10: no pair left out has a
\* smaller deltaE than a listed pair, and listed pairs with equal deltaE
\* appear in their lexicographic (index1, index2) order.
C29_AttentionListLowestFive ==
    Analysed /\ Len(call.args[1]) > 0 =>
        /\ Len(attentionList) <= 5
        /\ Range(attentionList) \subseteq
               {p \in Range(pairs) : p.deltaE < 10 * Scale}
        /\ Cardinality(Range(attentionList)) = Len(attentionList)
        /\ Len(attentionList) < 5 =>
               Range(attentionList) =
                   {p \in Range(pairs) : p.deltaE < 10 * Scale}
        /\ \A p \in Range(pairs) \ Range(attentionList) :
               \A q \in Range(attentionList) : p.deltaE >= q.deltaE
        /\ \A k \in 1..(Len(attentionList) - 1) :
               \/ attentionList[k].deltaE < attentionList[k + 1].deltaE
               \/ /\ attentionList[k].deltaE = attentionList[k + 1].deltaE
                  /\ LexicographicallyBefore(attentionList[k],
                                             attentionList[k + 1])

\* Six pairs below 10, of different deltaE: five are listed, the sort has
\* moved a pair forward, two listed neighbours tie, and a pair is left out
C29_SixCandidatesFiveListed ==
    /\ Analysed
    /\ Len(SelectSeq(pairs, LAMBDA p : p.deltaE < 10 * Scale)) > 5
    /\ Len(attentionList) = 5
    /\ attentionList # SubSeq(pairs, 1, 5)
    /\ \E k \in 1..4 : attentionList[k].deltaE = attentionList[k + 1].deltaE
    /\ \E k \in 1..4 : attentionList[k].deltaE < attentionList[k + 1].deltaE

----------------------------------------------------------------------------
(* The /api/generate handler (specification SpecGenerate) *)

\* The handler has answered without an error
Succeeded == response # Null /\ response.status = 200

\* The remote model has been called
ModelCalled == prompts # <<>>

\* The request passed every input check: description with trimmed length
\* >= 10 and length <= 500, dataType one of the three, 3 <= colorCount <= 9,
\* API key configured
PassedInputChecks ==
    /\ request # SyntaxError
    /\ request.description.type = "string"
    /\ Len(Trim(request.description.chars)) >= 10
    /\ Len(request.description.chars) <= 500
    /\ request.dataType \in {Categorical, Sequential, Diverging}
    /\ LessOrEqual(JsonNumber(3), request.colorCount)
    /\ LessOrEqual(request.colorCount, JsonNumber(9))
    /\ ~Falsy(env)

\* A 6-digit hex string, #rrggbb in either case
IsHexString(v) ==
    /\ v.type = "string"
    /\ Len(v.chars) = 7
    /\ v.chars[1] = "#"
    /\ \A k \in 2..7 : v.chars[k] \in HexChars

\* The answer returned holds a colors array of exactly colorCount entries,
\* each a 6-digit hex string
AnswerWellFormed ==
    /\ response.json.colors.type = "array"
    /\ JsonNumber(Len(response.json.colors.items)) = ToNumber(request.colorCount)
    /\ \A k \in 1..Len(response.json.colors.items) :
           IsHexString(response.json.colors.items[k])

\* C30: the handler returns a success response only when the request passed
\* every input check and the answer of the remote model holds a colors array
\* of exactly colorCount entries, each a 6-digit hex string; the remote
\* model is called only after all input checks passed.
C30_SuccessOnlyForCheckedRequestAndAnswer ==
    /\ Succeeded => PassedInputChecks /\ AnswerWellFormed
    /\ ModelCalled => PassedInputChecks

====
